---- MODULE Spec2Model ----
(***************************************************************************)
(* Universe selection of the QVAL tutorial (qval/Part2-Universe-Selection  *)
(* .ipynb): the notebook downloads the securities master file, publishes   *)
(* it as the universe nyse-stk, loads it into a DataFrame and publishes    *)
(* three filtered snapshots as nyse-financials, nyse-reits and nyse-adrs.  *)
(* One action per notebook cell; the cells run top to bottom and a cell    *)
(* that raises stops the run.                                              *)
(***************************************************************************)
EXTENDS Integers, Sequences, FiniteSets, TLC

VARIABLES master, marketcap, files, nyse_securities, universes, response,
          pc, error, firstRun, liquid

vars == <<master, marketcap, files, nyse_securities, universes, response,
          pc, error, firstRun, liquid>>

(***************************************************************************)
(* Bounds of the model.                                                    *)
(***************************************************************************)
MaxRows == 2

\* Identifier of the security on row i, when the row has one.
IdPool == <<"A", "B", "C", "D">>

(***************************************************************************)
(* Strings.  A string is held as a TLA+ string; Chars spells it so that    *)
(* substring and prefix tests are computed character by character.         *)
(***************************************************************************)
Chars ==
    "" :> <<>> @@
    "NaN" :> <<"N", "a", "N">> @@
    "Financial Services" :> <<"F", "i", "n", "a", "n", "c", "i", "a", "l", " ", "S", "e", "r", "v", "i", "c", "e", "s">> @@
    "Energy" :> <<"E", "n", "e", "r", "g", "y">> @@
    "Real Estate" :> <<"R", "e", "a", "l", " ", "E", "s", "t", "a", "t", "e">> @@
    "Financial" :> <<"F", "i", "n", "a", "n", "c", "i", "a", "l">> @@
    "financial services" :> <<"f", "i", "n", "a", "n", "c", "i", "a", "l", " ", "s", "e", "r", "v", "i", "c", "e", "s">> @@
    "REIT - Office" :> <<"R", "E", "I", "T", " ", "-", " ", "O", "f", "f", "i", "c", "e">> @@
    "REIT" :> <<"R", "E", "I", "T">> @@
    "Retail" :> <<"R", "e", "t", "a", "i", "l">> @@
    "reit" :> <<"r", "e", "i", "t">> @@
    "Equity REIT" :> <<"E", "q", "u", "i", "t", "y", " ", "R", "E", "I", "T">> @@
    "ADR Preferred" :> <<"A", "D", "R", " ", "P", "r", "e", "f", "e", "r", "r", "e", "d">> @@
    "Domestic" :> <<"D", "o", "m", "e", "s", "t", "i", "c">> @@
    "ADR" :> <<"A", "D", "R">> @@
    "ADR Primary" :> <<"A", "D", "R", " ", "P", "r", "i", "m", "a", "r", "y">> @@
    "ADR Secondary" :> <<"A", "D", "R", " ", "S", "e", "c", "o", "n", "d", "a", "r", "y">> @@
    "ADR Warrant" :> <<"A", "D", "R", " ", "W", "a", "r", "r", "a", "n", "t">> @@
    "Non-ADR" :> <<"N", "o", "n", "-", "A", "D", "R">> @@
    "AD" :> <<"A", "D">>

\* Python's ==, on two strings.
StrEq(s, t) == Chars[s] = Chars[t]

\* str.startswith(pat)
StartsWith(s, pat) ==
    LET cs == Chars[s]
        cp == Chars[pat]
    IN  Len(cp) <= Len(cs) /\ SubSeq(cs, 1, Len(cp)) = cp

\* str.contains(pat), pat free of regular-expression metacharacters:
\* a case-sensitive substring search.
Contains(s, pat) ==
    LET cs == Chars[s]
        cp == Chars[pat]
    IN  \E i \in 1..(Len(cs) - Len(cp) + 1) : SubSeq(cs, i, i + Len(cp) - 1) = cp

(***************************************************************************)
(* Delimited files and DataFrames.                                         *)
(*   file  : [header : Seq(STRING), rows : Seq(Seq(STRING))], a missing    *)
(*           value being an empty field;                                   *)
(*   frame : [columns, index, data], a missing value being NaN.            *)
(***************************************************************************)
NaN == "NaN"

MasterColumns == <<"Sid", "sharadar_Category", "sharadar_Industry", "sharadar_Sector">>

HasColumn(header, name) == \E i \in 1..Len(header) : header[i] = name

ColumnAt(header, name) == CHOOSE i \in 1..Len(header) : header[i] = name

Put(f, k, v) == [x \in DOMAIN f \cup {k} |-> IF x = k THEN v ELSE f[x]]

RECURSIVE Keep(_, _)
Keep(s, mask) ==
    IF s = <<>> THEN <<>>
    ELSE (IF Head(mask) THEN <<Head(s)>> ELSE <<>>) \o Keep(Tail(s), Tail(mask))

\* pd.read_csv(path): the header names the columns, the rows get the
\* index 0..n-1, an empty field is read as NaN.
read_csv(file) ==
    [ columns |-> file.header,
      index   |-> [i \in 1..Len(file.rows) |-> i - 1],
      data    |-> [i \in 1..Len(file.rows) |->
                     [j \in 1..Len(file.rows[i]) |->
                        IF file.rows[i][j] = "" THEN NaN ELSE file.rows[i][j]]] ]

\* frame.<column>: the column as a series.
Series(frame, name) ==
    [i \in 1..Len(frame.data) |-> frame.data[i][ColumnAt(frame.columns, name)]]

\* series.fillna(value)
fillna(series, value) ==
    [i \in 1..Len(series) |-> IF series[i] = NaN THEN value ELSE series[i]]

\* frame[mask]: the rows whose mask is True, index labels kept.
BooleanIndex(frame, mask) ==
    [ columns |-> frame.columns,
      index   |-> Keep(frame.index, mask),
      data    |-> Keep(frame.data, mask) ]

\* frame.to_csv(path) with the defaults index=True, header=True, na_rep="":
\* the index is written as a first column with an empty name.
to_csv(frame) ==
    [ header |-> <<"">> \o frame.columns,
      rows   |-> [i \in 1..Len(frame.data) |->
                    <<ToString(frame.index[i])>> \o
                    [j \in 1..Len(frame.data[i]) |->
                       IF frame.data[i][j] = NaN THEN "" ELSE frame.data[i][j]]] ]

(***************************************************************************)
(* The three masks of the notebook.                                        *)
(***************************************************************************)
\* The sector test as a substring search for "Financial".
FinancialsMask_contains(frame) ==
    LET s == fillna(Series(frame, "sharadar_Sector"), "")
    IN  [i \in 1..Len(s) |-> Contains(s[i], "Financial")]

\* The sector test with != in place of ==.
FinancialsMask_ne(frame) ==
    LET s == Series(frame, "sharadar_Sector")
    IN  [i \in 1..Len(s) |-> ~(s[i] # NaN /\ StrEq(s[i], "Financial Services"))]

\* nyse_securities.sharadar_Sector == "Financial Services"
FinancialsMask(frame) ==
    LET s == Series(frame, "sharadar_Sector")
    IN  [i \in 1..Len(s) |-> s[i] # NaN /\ StrEq(s[i], "Financial Services")]

\* The industry test as a prefix test.
ReitsMask_startswith(frame) ==
    LET s == fillna(Series(frame, "sharadar_Industry"), "")
    IN  [i \in 1..Len(s) |-> StartsWith(s[i], "REIT")]

\* nyse_securities.sharadar_Industry.fillna("").str.contains("REIT")
ReitsMask(frame) ==
    LET s == fillna(Series(frame, "sharadar_Industry"), "")
    IN  [i \in 1..Len(s) |-> Contains(s[i], "REIT")]

\* The category test with missing values filled by the pattern itself.
AdrsMask_fillna(frame) ==
    LET s == fillna(Series(frame, "sharadar_Category"), "ADR")
    IN  [i \in 1..Len(s) |-> StartsWith(s[i], "ADR")]

\* The category test as a substring search.
AdrsMask_contains(frame) ==
    LET s == fillna(Series(frame, "sharadar_Category"), "")
    IN  [i \in 1..Len(s) |-> Contains(s[i], "ADR")]

\* nyse_securities.sharadar_Category.fillna("").str.startswith("ADR")
AdrsMask(frame) ==
    LET s == fillna(Series(frame, "sharadar_Category"), "")
    IN  [i \in 1..Len(s) |-> StartsWith(s[i], "ADR")]

(***************************************************************************)
(* The platform's universe service.  The notebook only calls it; what it   *)
(* does with a file is the platform's: members are the identifiers of the  *)
(* Sid column, a row without identifier adds none, a universe that exists  *)
(* is appended to or replaced, a file without a Sid column is rejected.    *)
(***************************************************************************)
\* The identifiers a membership file provides: the non-empty fields of its
\* Sid column.
FileSids(file) ==
    LET c == ColumnAt(file.header, "Sid")
    IN  {file.rows[i][c] : i \in 1..Len(file.rows)} \ {""}

Members(u, code) == IF code \in DOMAIN u THEN u[code] ELSE {}

\* create_universe(code, path) on a file that has a Sid column: the members
\* are inserted into the universe (mode "append") or take its place (mode
\* "replace"); the reply counts them.
Reply(u, code, file, mode) ==
    LET old == IF mode = "append" THEN Members(u, code) ELSE {}
    IN  [ code               |-> code,
          provided           |-> Cardinality(FileSids(file)),
          inserted           |-> Cardinality(FileSids(file) \ old),
          total_after_insert |-> Cardinality(FileSids(file) \cup old) ]

Inserted(u, code, file, mode) ==
    Put(u, code, (IF mode = "append" THEN Members(u, code) ELSE {}) \cup FileSids(file))

NoReply == [code |-> "", provided |-> 0, inserted |-> 0, total_after_insert |-> 0]

\* create_universe(code, path), path holding `file`: a file without a Sid
\* column is rejected and the cell raises; otherwise the universe is
\* written and the reply displayed, and the run goes on to cell `next`.
create_universe(code, file, next) ==
    IF HasColumn(file.header, "Sid")
    THEN /\ \E mode \in {"append", "replace"} :
              /\ universes' = Inserted(universes, code, file, mode)
              /\ response' = Reply(universes, code, file, mode)
         /\ pc' = next
         /\ error' = error
    ELSE /\ pc' = "failed"
         /\ error' = "NoSidColumn"
         /\ UNCHANGED <<universes, response>>

(***************************************************************************)
(* The cells of the notebook.                                              *)
(***************************************************************************)
\* download_master_file("sharadar_nyse_securities.csv", exchanges="NYSE", ...)
DownloadMasterFile ==
    /\ pc = "download"
    /\ files' = Put(files, "sharadar_nyse_securities.csv", master)
    /\ pc' = "create_all"
    /\ UNCHANGED <<master, marketcap, nyse_securities, universes, response,
                   error, firstRun, liquid>>

\* The first cell publishing under the code of the financials universe.
CreateAll_wrong_code ==
    /\ pc = "create_all"
    /\ "sharadar_nyse_securities.csv" \in DOMAIN files
    /\ create_universe("nyse-financials", files["sharadar_nyse_securities.csv"], "read_csv")
    /\ UNCHANGED <<master, marketcap, files, nyse_securities, firstRun, liquid>>

\* The first cell with the platform's rejection swallowed: the run goes on.
CreateAll_swallow ==
    /\ pc = "create_all"
    /\ "sharadar_nyse_securities.csv" \in DOMAIN files
    /\ LET file == files["sharadar_nyse_securities.csv"]
       IN  IF HasColumn(file.header, "Sid")
           THEN create_universe("nyse-stk", file, "read_csv")
           ELSE pc' = "read_csv" /\ UNCHANGED <<universes, response, error>>
    /\ UNCHANGED <<master, marketcap, files, nyse_securities, firstRun, liquid>>

\* create_universe("nyse-stk", "sharadar_nyse_securities.csv")
CreateAll ==
    /\ pc = "create_all"
    /\ "sharadar_nyse_securities.csv" \in DOMAIN files
    /\ create_universe("nyse-stk", files["sharadar_nyse_securities.csv"], "read_csv")
    /\ UNCHANGED <<master, marketcap, files, nyse_securities, firstRun, liquid>>

\* nyse_securities = pd.read_csv("sharadar_nyse_securities.csv")
ReadCsv ==
    /\ pc = "read_csv"
    /\ "sharadar_nyse_securities.csv" \in DOMAIN files
    /\ nyse_securities' = <<read_csv(files["sharadar_nyse_securities.csv"])>>
    /\ pc' = "financials"
    /\ UNCHANGED <<master, marketcap, files, universes, response, error,
                   firstRun, liquid>>

\* nyse_securities[nyse_securities.sharadar_Sector == "Financial Services"]
\*     .to_csv("sharadar_nyse_financials.csv")
\* create_universe("nyse-financials", "sharadar_nyse_financials.csv")
Financials ==
    /\ pc = "financials"
    /\ nyse_securities # <<>>
    /\ LET frame == nyse_securities[1]
           snapshot == to_csv(BooleanIndex(frame, FinancialsMask(frame)))
       IN  /\ files' = Put(files, "sharadar_nyse_financials.csv", snapshot)
           /\ create_universe("nyse-financials", snapshot, "reits")
    /\ UNCHANGED <<master, marketcap, nyse_securities, firstRun, liquid>>

\* The REIT cell publishing under the code of the financials universe.
Reits_wrong_code ==
    /\ pc = "reits"
    /\ nyse_securities # <<>>
    /\ LET frame == nyse_securities[1]
           snapshot == to_csv(BooleanIndex(frame, ReitsMask(frame)))
       IN  /\ files' = Put(files, "sharadar_nyse_reits.csv", snapshot)
           /\ create_universe("nyse-financials", snapshot, "adrs")
    /\ UNCHANGED <<master, marketcap, nyse_securities, firstRun, liquid>>

\* nyse_securities[nyse_securities.sharadar_Industry.fillna("").str.contains("REIT")]
\*     .to_csv("sharadar_nyse_reits.csv")
\* create_universe("nyse-reits", "sharadar_nyse_reits.csv")
Reits ==
    /\ pc = "reits"
    /\ nyse_securities # <<>>
    /\ LET frame == nyse_securities[1]
           snapshot == to_csv(BooleanIndex(frame, ReitsMask(frame)))
       IN  /\ files' = Put(files, "sharadar_nyse_reits.csv", snapshot)
           /\ create_universe("nyse-reits", snapshot, "adrs")
    /\ UNCHANGED <<master, marketcap, nyse_securities, firstRun, liquid>>

\* nyse_securities[nyse_securities.sharadar_Category.fillna("").str.startswith("ADR")]
\*     .to_csv("sharadar_nyse_adrs.csv")
\* create_universe("nyse-adrs", "sharadar_nyse_adrs.csv")
\* The last cell: firstRun records the universes the first run leaves.
Adrs ==
    /\ pc = "adrs"
    /\ nyse_securities # <<>>
    /\ LET frame == nyse_securities[1]
           snapshot == to_csv(BooleanIndex(frame, AdrsMask(frame)))
       IN  /\ files' = Put(files, "sharadar_nyse_adrs.csv", snapshot)
           /\ create_universe("nyse-adrs", snapshot, "done")
    /\ firstRun' = IF firstRun = <<>> /\ pc' = "done" THEN <<universes'>> ELSE firstRun
    /\ UNCHANGED <<master, marketcap, nyse_securities, liquid>>

(***************************************************************************)
(* The liquidity screen of the strategy (QVAL rule 1.C), which consumes    *)
(* the four universes.                                                     *)
(***************************************************************************)
DefaultN == 60

NValues == {0, 25, 50, DefaultN, 100}

IdIndex(a) == CHOOSE i \in 1..Len(IdPool) : IdPool[i] = a

\* all minus (financials, ADRs, REITs)
Eligible(u) ==
    Members(u, "nyse-stk") \
        (Members(u, "nyse-financials") \cup Members(u, "nyse-reits")
            \cup Members(u, "nyse-adrs"))

\* a ranks before b: by market capitalization, largest first, a record
\* without one after every record that has one, ties by identifier.
RanksBefore(caps, a, b) ==
    IF a \in DOMAIN caps /\ b \in DOMAIN caps
    THEN caps[a] > caps[b] \/ (caps[a] = caps[b] /\ IdIndex(a) < IdIndex(b))
    ELSE IF a \in DOMAIN caps THEN TRUE
    ELSE IF b \in DOMAIN caps THEN FALSE
    ELSE IdIndex(a) < IdIndex(b)

Rank(caps, S, a) == 1 + Cardinality({b \in S : RanksBefore(caps, b, a)})

\* The top N percent of S by market capitalization.
TopPercent(caps, S, N) ==
    {a \in S : Rank(caps, S, a) * 100 <= N * Cardinality(S)}

LiquidityScreen ==
    /\ pc = "done"
    /\ \E N \in NValues :
         liquid' = <<[N |-> N, kept |-> TopPercent(marketcap, Eligible(universes), N)]>>
    /\ UNCHANGED <<master, marketcap, files, nyse_securities, universes,
                   response, pc, error, firstRun>>

\* The notebook is run again, top to bottom, on the same master table.
Rerun ==
    /\ pc = "done"
    /\ pc' = "download"
    /\ liquid' = <<>>
    /\ UNCHANGED <<master, marketcap, files, nyse_securities, universes,
                   response, error, firstRun>>

(***************************************************************************)
(* Initial states: a master table of at most MaxRows securities.           *)
(***************************************************************************)
\* Row i of the table: its identifier (IdPool[i], or empty where NoId allows
\* a missing one), then category, industry and sector from a profile.
RowsAt(i, withSid, NoId, Profiles) ==
    IF withSid
    THEN {<<s, p[1], p[2], p[3]>> : s \in {IdPool[i]} \cup NoId, p \in Profiles}
    ELSE Profiles

RECURSIVE TablesOfLen(_, _, _, _)
TablesOfLen(n, withSid, NoId, Profiles) ==
    IF n = 0 THEN {<<>>}
    ELSE {Append(t, r) : t \in TablesOfLen(n - 1, withSid, NoId, Profiles),
                         r \in RowsAt(n, withSid, NoId, Profiles)}

MasterFiles(NoId, Profiles) ==
    UNION {
      { [header |-> IF withSid THEN MasterColumns ELSE Tail(MasterColumns),
         rows   |-> t] : t \in TablesOfLen(n, withSid, NoId, Profiles) } :
      n \in 0..MaxRows, withSid \in BOOLEAN }

TableSids(file) ==
    IF HasColumn(file.header, "Sid") THEN FileSids(file) ELSE {}

InitWith(NoId, Profiles, Caps) ==
    /\ master \in MasterFiles(NoId, Profiles)
    /\ marketcap \in UNION {[dom -> Caps] : dom \in SUBSET TableSids(master)}
    /\ files = <<>>
    /\ nyse_securities = <<>>
    /\ universes = <<>>
    /\ response = NoReply
    /\ pc = "download"
    /\ error = ""
    /\ firstRun = <<>>
    /\ liquid = <<>>

\* Tables whose three descriptive fields are each missing, matching or not.
Init ==
    InitWith({""},
             {"", "ADR Preferred"} \X {"", "REIT - Office"}
                 \X {"", "Financial Services", "Energy"},
             {})

\* Tables that vary one descriptive field over the values the matching
\* rule has to tell apart.
SectorValues ==
    {"", "Financial Services", "Energy", "Real Estate", "Financial",
     "financial services"}

IndustryValues ==
    {"", "REIT - Office", "REIT", "Retail", "reit", "Equity REIT"}

CategoryValues ==
    {"", "ADR Preferred", "Domestic", "ADR", "ADR Primary", "ADR Secondary",
     "ADR Warrant", "Non-ADR", "AD"}

InitSector == InitWith({""}, {""} \X {""} \X SectorValues, {})

InitIndustry == InitWith({""}, {""} \X IndustryValues \X {""}, {})

InitCategory == InitWith({""}, CategoryValues \X {""} \X {""}, {})

\* Tables of identified securities, plain, financial, REIT or ADR, with
\* market capitalizations present or absent, equal or different.
InitLiquidity ==
    InitWith({},
             { <<"Domestic", "Retail", "Energy">>,
               <<"Domestic", "", "Financial Services">>,
               <<"", "REIT - Office", "Real Estate">>,
               <<"ADR", "Retail", "">> },
             {1, 2})

Next ==
    \/ DownloadMasterFile
    \/ CreateAll
    \/ ReadCsv
    \/ Financials
    \/ Reits
    \/ Adrs
    \/ LiquidityScreen
    \/ Rerun

Spec == Init /\ [][Next]_vars

SpecSector == InitSector /\ [][Next]_vars

SpecIndustry == InitIndustry /\ [][Next]_vars

SpecCategory == InitCategory /\ [][Next]_vars

SpecLiquidity == InitLiquidity /\ [][Next]_vars

(***************************************************************************)
(* Properties.  The expected memberships are read off the master table as  *)
(* the platform holds it, field by field, against the lists of values      *)
(* that match.                                                             *)
(***************************************************************************)
HasSid == HasColumn(master.header, "Sid")

RowIds == 1..Len(master.rows)

Field(i, name) == master.rows[i][ColumnAt(master.header, name)]

\* The identifier of row i; empty when the row or the table has none.
SidOf(i) == IF HasSid THEN Field(i, "Sid") ELSE ""

Sector(i) == Field(i, "sharadar_Sector")

Industry(i) == Field(i, "sharadar_Industry")

Category(i) == Field(i, "sharadar_Category")

U(code) == Members(universes, code)

IdsWhere(P(_)) == {SidOf(i) : i \in {j \in RowIds : P(j)}} \ {""}

IsFinancial(i) == Sector(i) = "Financial Services"

IsReit(i) == Industry(i) \in {"REIT - Office", "REIT", "Equity REIT"}

IsAdr(i) ==
    Category(i) \in {"ADR", "ADR Preferred", "ADR Primary", "ADR Secondary", "ADR Warrant"}

Identified(i) == SidOf(i) # ""

Ran(cells) == pc \in cells \/ firstRun # <<>>

\* C1: a record whose sector is missing is never a member of financials,
\* one whose industry is missing never of reits, one whose category is
\* missing never of adrs; after a run a record with all three missing is a
\* member of all and of nothing else.
C1_NullNeverMember ==
    \A i \in RowIds :
        /\ Sector(i) = "" => SidOf(i) \notin U("nyse-financials")
        /\ Industry(i) = "" => SidOf(i) \notin U("nyse-reits")
        /\ Category(i) = "" => SidOf(i) \notin U("nyse-adrs")
        /\ (/\ pc = "done"
            /\ Identified(i)
            /\ Sector(i) = "" /\ Industry(i) = "" /\ Category(i) = "")
           => /\ SidOf(i) \in U("nyse-stk")
              /\ \A code \in DOMAIN universes \ {"nyse-stk"} :
                     SidOf(i) \notin universes[code]

C1_Witness ==
    /\ pc = "done"
    /\ \E i \in RowIds :
         /\ Identified(i)
         /\ Sector(i) = "" /\ Industry(i) = "" /\ Category(i) = ""
         /\ SidOf(i) \in U("nyse-stk")
    /\ U("nyse-financials") # {} /\ U("nyse-reits") # {} /\ U("nyse-adrs") # {}

\* C2: once the financials cell has run, the financials universe is exactly
\* the identifiers of the records whose sector is the whole string
\* "Financial Services"; no other sector value, nor a missing one, is in.
C2_FinancialsExact ==
    Ran({"reits", "adrs", "done"}) => U("nyse-financials") = IdsWhere(IsFinancial)

C2_Witness ==
    /\ pc = "done"
    /\ U("nyse-financials") # {}
    /\ \E i \in RowIds :
         /\ Identified(i)
         /\ Sector(i) \in {"Financial", "financial services", "Energy", ""}
         /\ SidOf(i) \notin U("nyse-financials")

\* C3: once the REIT cell has run, the reits universe is exactly the
\* identifiers of the records whose industry contains "REIT", in this case,
\* at any position; "Retail", "reit" and a missing industry are out.
C3_ReitsExact ==
    Ran({"adrs", "done"}) => U("nyse-reits") = IdsWhere(IsReit)

C3_Witness ==
    /\ pc = "done"
    /\ \E i \in RowIds :
         Industry(i) = "Equity REIT" /\ Identified(i) /\ SidOf(i) \in U("nyse-reits")
    /\ \E i \in RowIds :
         /\ Identified(i)
         /\ Industry(i) \in {"Retail", "reit", ""}
         /\ SidOf(i) \notin U("nyse-reits")

\* C4: once the ADR cell has run, the adrs universe is exactly the
\* identifiers of the records whose category starts with "ADR"; a category
\* that holds "ADR" further on, "Domestic" and a missing category are out.
C4_AdrsExact ==
    Ran({"done"}) => U("nyse-adrs") = IdsWhere(IsAdr)

C4_Witness ==
    /\ pc = "done"
    /\ \E i \in RowIds :
         /\ Identified(i)
         /\ Category(i) \in {"ADR Preferred", "ADR Warrant", "ADR"}
         /\ SidOf(i) \in U("nyse-adrs")
    /\ \E i \in RowIds :
         /\ Identified(i)
         /\ Category(i) \in {"Non-ADR", "AD", ""}
         /\ SidOf(i) \notin U("nyse-adrs")

\* C5: the members of financials, of reits and of adrs are members of all,
\* also when rows of the table have no identifier.
C5_SubsetsOfAll ==
    /\ U("nyse-financials") \subseteq U("nyse-stk")
    /\ U("nyse-reits") \subseteq U("nyse-stk")
    /\ U("nyse-adrs") \subseteq U("nyse-stk")

C5_Witness ==
    /\ pc = "done"
    /\ \E i \in RowIds : ~Identified(i) /\ IsFinancial(i)
    /\ U("nyse-financials") # {}
    /\ U("nyse-reits") # {}
    /\ U("nyse-adrs") # {}

\* C6: once the first cell has published it, all has as many members as the
\* table has rows with an identifier: each such row is a member and a row
\* without identifier adds none.
C6_AllCountsIdentifiedRows ==
    (HasSid /\ Ran({"read_csv", "financials", "reits", "adrs", "done"}))
    => /\ Cardinality(U("nyse-stk")) = Cardinality({i \in RowIds : Identified(i)})
       /\ \A i \in RowIds : Identified(i) => SidOf(i) \in U("nyse-stk")
       /\ pc = "read_csv" => response.provided = Cardinality({i \in RowIds : Identified(i)})

C6_Witness ==
    /\ pc = "read_csv"
    /\ \E i \in RowIds : ~Identified(i)
    /\ \E i \in RowIds : Identified(i)
    /\ response.code = "nyse-stk" /\ response.total_after_insert = 1

\* C7: every snapshot file written for financials, reits or adrs has exactly
\* the columns of the input, in order, and each of its rows is a row of the
\* input, unchanged.
Snapshots ==
    DOMAIN files \cap {"sharadar_nyse_financials.csv", "sharadar_nyse_reits.csv",
                       "sharadar_nyse_adrs.csv"}

C7_SnapshotSameSchema ==
    \A path \in Snapshots :
        /\ files[path].header = master.header
        /\ \A k \in 1..Len(files[path].rows) :
               \E i \in RowIds : files[path].rows[k] = master.rows[i]

IsPlain(i) == ~IsFinancial(i) /\ ~IsReit(i) /\ ~IsAdr(i)

C9_LiquidityScreen ==
    liquid # <<>> =>
        /\ liquid[1].kept \subseteq IdsWhere(IsPlain)
        /\ liquid[1].N = 100 => liquid[1].kept = IdsWhere(IsPlain)
        /\ liquid[1].N = 0 => liquid[1].kept = {}

C9_Witness ==
    /\ liquid # <<>>
    /\ liquid[1].N = 100
    /\ Cardinality(liquid[1].kept) = 1
    /\ Cardinality(U("nyse-stk")) = 2

\* C10: once a first run has completed, running the notebook again on the
\* same table leaves the members of all, financials, reits and adrs as the
\* first run left them, at every step of every later run.
C10_RerunIdempotent ==
    firstRun # <<>> =>
        \A code \in {"nyse-stk", "nyse-financials", "nyse-reits", "nyse-adrs"} :
            U(code) = Members(firstRun[1], code)

C10_Witness ==
    /\ firstRun # <<>>
    /\ pc = "done"
    /\ response.code = "nyse-adrs"
    /\ response.provided > 0
    /\ response.inserted = 0
    /\ U("nyse-financials") # {}
    /\ U("nyse-reits") # U("nyse-financials")

====
